---------------------------- MODULE Spec2Model ----------------------------
(***************************************************************************)
(* Model of the wallet discovery code of the Solana bot skeleton:          *)
(*   src/wallet_utils.py     load_keypair_from_json, load_all_wallets,     *)
(*                           list_public_keys_with_paths                   *)
(*   src/wallet_utilsmac.py  the macOS variants of the same functions      *)
(*   src/main.py             main                                          *)
(*                                                                         *)
(* Text is modelled as tuples of character codes, so that the order of     *)
(* path strings is computed and not assumed.  A key file is modelled by a  *)
(* descriptor (Content below) from which the parsed JSON value is built.   *)
(***************************************************************************)
EXTENDS Integers, Sequences, FiniteSets, TLC

VARIABLES
    input,       \* SpecDecode: the content of the one file handed to the loaders
    decoded,     \* SpecDecode: <<r>> once wallet_utils.load_keypair_from_json ran
    macDecoded,  \* SpecDecode: <<r>> once wallet_utilsmac.load_keypair_from_json ran
    dirExists,   \* SpecDir: whether the wallets directory exists
    files,       \* SpecDir: relative path (tuple of components) -> Content
    entries,     \* SpecDir: outcome of wallet_utils.list_public_keys_with_paths
    macEntries,  \* SpecDir: outcome of wallet_utilsmac.list_public_keys_with_paths
    wallets,     \* SpecDir: outcome of wallet_utils.load_all_wallets
    report       \* SpecDir: outcome of main

vars == <<input, decoded, macDecoded, dirExists, files, entries, macEntries,
          wallets, report>>

-----------------------------------------------------------------------------
(* Bounds of the model *)

\* longest JSON array handed to the loaders in SpecDecode
MaxLen == 66

\* most directory entries under the wallets directory in SpecDir
MaxFiles == 3

-----------------------------------------------------------------------------
(* Program constants *)

\* len(secret_key_bytes) not in (64, 32)
KeypairLen == 64

SeedLen == 32

\* bytes(raw): each item must be in range(0, 256)
ByteLimit == 256

-----------------------------------------------------------------------------
(* Text as tuples of character codes *)

Slash == 47

\* ".json", the suffix the pattern "**/*.json" asks for
JsonSuffix == <<46, 106, 115, 111, 110>>

\* ".txt"
TxtSuffix == <<46, 116, 120, 116>>

\* "wallets", the default of WALLETS_DIR
DefaultDir == <<119, 97, 108, 108, 101, 116, 115>>

\* s < t for two texts, as Python compares str: code point by code point,
\* a proper prefix first
RECURSIVE StrLess(_, _)
StrLess(s, t) ==
    IF t = <<>> THEN FALSE
    ELSE IF s = <<>> THEN TRUE
    ELSE IF Head(s) # Head(t) THEN Head(s) < Head(t)
    ELSE StrLess(Tail(s), Tail(t))

EndsWith(s, suf) ==
    /\ Len(s) >= Len(suf)
    /\ SubSeq(s, Len(s) - Len(suf) + 1, Len(s)) = suf

-----------------------------------------------------------------------------
(* JSON values, as json.loads returns them *)

JInt(n) == [t |-> "int", v |-> n]

\* True and False are instances of int in Python, with values 1 and 0
JBool(b) == [t |-> "bool", v |-> IF b THEN 1 ELSE 0]

JStr == [t |-> "str", v |-> 0]

JFloat == [t |-> "float", v |-> 0]

JNull == [t |-> "null", v |-> 0]

JList == [t |-> "list", v |-> 0]

\* the items that are not a JSON integer in [0,255]
OddItems ==
    {JInt(-1), JInt(ByteLimit), JBool(TRUE), JBool(FALSE), JStr, JFloat,
     JNull, JList}

-----------------------------------------------------------------------------
(* Key material.  Ed25519 itself is the solders library's; the model keeps *)
(* of it that the public half is a fixed function of the seed.             *)

SeedBytes(fill) == [j \in 1..SeedLen |-> fill]

PubByte(seedByte, j) == (seedByte * 5 + j) % ByteLimit

DerivePub(seed) == [j \in 1..SeedLen |-> PubByte(seed[j], j)]

\* the 64 bytes solana-keygen writes: the seed, then the public key
KeygenBytes(fill) == SeedBytes(fill) \o DerivePub(SeedBytes(fill))

-----------------------------------------------------------------------------
(* What a candidate path holds *)

\* kind: "dangling"  the path does not resolve to a file (a broken link)
\*       "dir"       the path is a directory
\*       "badutf8"   a file whose bytes are not UTF-8
\*       "badjson"   a file whose text is not JSON
\*       "scalar"    a file holding a JSON string, number, boolean or null
\*       "object"    a file holding a JSON object
\*       "array"     a file holding a JSON array of len items: the first len
\*                   bytes of a key whose seed bytes are all fill (its last
\*                   byte altered when pair is FALSE), then fill again
\*                   beyond 64, with item dpos (if not 0) replaced by ditem
Content(kind, len, fill, pair, dpos, ditem) ==
    [kind |-> kind, len |-> len, fill |-> fill, pair |-> pair,
     dpos |-> dpos, ditem |-> ditem]

Plain(kind) == Content(kind, 0, 0, TRUE, 0, JNull)

KeyArray(len, fill) == Content("array", len, fill, TRUE, 0, JNull)

KeyByte(c, i) ==
    IF i <= SeedLen \/ i > KeypairLen THEN c.fill
    ELSE IF i = KeypairLen /\ ~c.pair
         THEN (PubByte(c.fill, i - SeedLen) + 1) % ByteLimit
         ELSE PubByte(c.fill, i - SeedLen)

\* the list json.loads returns for an "array" content
Items(c) ==
    [i \in 1..c.len |-> IF i = c.dpos THEN c.ditem ELSE JInt(KeyByte(c, i))]

-----------------------------------------------------------------------------
(* Exceptions and results of load_keypair_from_json *)

Exc(type, msg, n) == [type |-> type, msg |-> msg, n |-> n]

NoExc == Exc("", "", 0)

NoKeypair == [secret |-> <<>>, pub |-> <<>>]

\* built: whether Keypair.from_bytes was called
Raised(e, built) == [ok |-> FALSE, exc |-> e, kp |-> NoKeypair, built |-> built]

Returned(kp) == [ok |-> TRUE, exc |-> NoExc, kp |-> kp, built |-> TRUE]

\* bytes(raw): the first item that is no index, or out of range, raises
FirstBad(items) ==
    LET bad == {i \in 1..Len(items) :
                   \/ items[i].t \notin {"int", "bool"}
                   \/ items[i].v < 0
                   \/ items[i].v >= ByteLimit}
    IN IF bad = {} THEN 0 ELSE CHOOSE i \in bad : \A j \in bad : i <= j

ToBytes(items) == [i \in 1..Len(items) |-> items[i].v]

\* Keypair.from_bytes: it takes the 64 bytes of a keypair, the public half
\* being the one the seed gives, and raises on anything else; a seed alone
\* is what Keypair.from_seed takes, which the code never calls
FromBytes(b) ==
    IF Len(b) = KeypairLen
       /\ SubSeq(b, SeedLen + 1, KeypairLen) = DerivePub(SubSeq(b, 1, SeedLen))
    THEN Returned([secret |-> SubSeq(b, 1, SeedLen),
                   pub |-> SubSeq(b, SeedLen + 1, KeypairLen)])
    ELSE Raised(Exc("ValueError", "keypair bytes rejected", 0), TRUE)

\* path.read_text(encoding="utf-8"): the text, or the exception raised
ReadText(c) ==
    CASE c.kind = "dangling" ->
             Exc("FileNotFoundError", "No such file or directory", 0)
      [] c.kind = "dir" -> Exc("IsADirectoryError", "Is a directory", 0)
      [] c.kind = "badutf8" -> Exc("UnicodeDecodeError", "invalid start byte", 0)
      [] OTHER -> NoExc

\* json.loads: the value, or the exception raised
JsonLoads(c) ==
    IF c.kind = "badjson" THEN Exc("JSONDecodeError", "Expecting value", 0)
    ELSE NoExc

\* isinstance(raw, list)
IsList(c) == c.kind = "array"

\* bytes(raw) raises TypeError or ValueError at the first bad item
BytesExc(items) ==
    LET i == FirstBad(items)
    IN IF i = 0 THEN NoExc
       ELSE IF items[i].t \notin {"int", "bool"}
       THEN Exc("TypeError", "cannot be interpreted as an integer", 0)
       ELSE Exc("ValueError", "bytes must be in range(0, 256)", 0)

\* a variant of LengthOk: an upper limit in place of the two lengths
LengthOkUpTo64(n) == n <= KeypairLen

\* len(secret_key_bytes) in (64, 32), wallet_utils
LengthOk(n) == n \in {KeypairLen, SeedLen}

\* wallet_utils.load_keypair_from_json
load_keypair_from_json(c) ==
    LET text == ReadText(c)
        raw == JsonLoads(c)
        items == Items(c)
        bad == BytesExc(items)
    IN IF text # NoExc THEN Raised(text, FALSE)
       ELSE IF raw # NoExc THEN Raised(raw, FALSE)
       ELSE IF ~IsList(c)
       THEN Raised(Exc("ValueError", "Invalid key file format (expected array)",
                       0), FALSE)
       ELSE IF bad # NoExc THEN Raised(bad, FALSE)
       ELSE IF ~LengthOk(Len(items))
       THEN Raised(Exc("ValueError", "Unexpected secret key length", Len(items)),
                   FALSE)
       ELSE FromBytes(ToBytes(items))

\* path.exists(), wallet_utilsmac: a broken link does not exist
PathExists(c) == c.kind # "dangling"

\* len(secret_key_bytes) in (64, 32), wallet_utilsmac
MacLengthOk(n) == n \in {KeypairLen, SeedLen}

\* a variant of mac_load_keypair_from_json: 32 bytes go to Keypair.from_seed
mac_load_with_from_seed(c) ==
    LET text == ReadText(c)
        raw == JsonLoads(c)
        items == Items(c)
        bad == BytesExc(items)
    IN IF ~PathExists(c)
       THEN Raised(Exc("FileNotFoundError", "Wallet file not found", 0), FALSE)
       ELSE IF text # NoExc THEN Raised(text, FALSE)
       ELSE IF raw # NoExc THEN Raised(raw, FALSE)
       ELSE IF ~IsList(c)
       THEN Raised(Exc("ValueError", "Invalid key file format (expected array)",
                       0), FALSE)
       ELSE IF bad # NoExc THEN Raised(bad, FALSE)
       ELSE IF ~MacLengthOk(Len(items))
       THEN Raised(Exc("ValueError", "Unexpected secret key length", Len(items)),
                   FALSE)
       ELSE IF Len(items) = SeedLen
       THEN Returned([secret |-> ToBytes(items), pub |-> DerivePub(ToBytes(items))])
       ELSE FromBytes(ToBytes(items))

\* wallet_utilsmac.load_keypair_from_json
mac_load_keypair_from_json(c) ==
    LET text == ReadText(c)
        raw == JsonLoads(c)
        items == Items(c)
        bad == BytesExc(items)
    IN IF ~PathExists(c)
       THEN Raised(Exc("FileNotFoundError", "Wallet file not found", 0), FALSE)
       ELSE IF text # NoExc THEN Raised(text, FALSE)
       ELSE IF raw # NoExc THEN Raised(raw, FALSE)
       ELSE IF ~IsList(c)
       THEN Raised(Exc("ValueError", "Invalid key file format (expected array)",
                       0), FALSE)
       ELSE IF bad # NoExc THEN Raised(bad, FALSE)
       ELSE IF ~MacLengthOk(Len(items))
       THEN Raised(Exc("ValueError", "Unexpected secret key length", Len(items)),
                   FALSE)
       ELSE FromBytes(ToBytes(items))

-----------------------------------------------------------------------------
(* Paths.  A path under the wallets directory is the tuple of its          *)
(* components, each a text.                                                *)

Name1(ch) == <<ch>>

FileA == <<Name1(97) \o JsonSuffix>>

FileB == <<Name1(98) \o JsonSuffix>>

FileC == <<Name1(99) \o JsonSuffix>>

\* a/x.json
FileAX == <<Name1(97), Name1(120) \o JsonSuffix>>

\* b.txt, which the pattern does not match
FileBTxt == <<Name1(98) \o TxtSuffix>>

JsonPaths == {FileA, FileB, FileC, FileAX}

AllPaths == JsonPaths \cup {FileBTxt}

\* the components joined by "/"
RECURSIVE JoinParts(_)
JoinParts(parts) ==
    IF Len(parts) = 1 THEN parts[1]
    ELSE parts[1] \o <<Slash>> \o JoinParts(Tail(parts))

\* str(json_file), for base = Path("wallets")
PathStr(rel) == JoinParts(<<DefaultDir>> \o rel)

\* Path.__lt__: the tuples of components compared as Python compares lists,
\* the first differing component deciding, a proper prefix first
RECURSIVE PartsLess(_, _)
PartsLess(p, q) ==
    IF q = <<>> THEN FALSE
    ELSE IF p = <<>> THEN TRUE
    ELSE IF Head(p) # Head(q) THEN StrLess(Head(p), Head(q))
    ELSE PartsLess(Tail(p), Tail(q))

\* a variant of PathLess: the order of the path strings
PathLessByString(p, q) == StrLess(PathStr(p), PathStr(q))

PathLess(p, q) == PartsLess(p, q)

\* sorted(...) of a set of paths
RECURSIVE Sorted(_)
Sorted(S) ==
    IF S = {} THEN <<>>
    ELSE LET m == CHOOSE x \in S : \A y \in S \ {x} : PathLess(x, y)
         IN <<m>> \o Sorted(S \ {m})

\* base.glob("**/*.json"): every path under base whose name ends in .json
Glob(fs) == {p \in DOMAIN fs : EndsWith(p[Len(p)], JsonSuffix)}

Candidates(fs) == Sorted(Glob(fs))

-----------------------------------------------------------------------------
(* The three directory functions and main *)

\* str(kp.pubkey()): base58 is one-to-one, the model keeps the bytes
PubkeyStr(kp) == kp.pub

\* (str(json_file), public_key_str) or (str(json_file), f"<error: {exc}>")
EntryOf(p, r) ==
    IF r.ok
    THEN [path |-> PathStr(p), marker |-> "", exc |-> NoExc,
          pubkey |-> PubkeyStr(r.kp)]
    ELSE [path |-> PathStr(p), marker |-> "<error: ", exc |-> r.exc,
          pubkey |-> <<>>]

NotCalled == [called |-> FALSE, out |-> <<>>, reads |-> 0, printed |-> <<>>]

Outcome(out, reads, printed) ==
    [called |-> TRUE, out |-> out, reads |-> reads, printed |-> printed]

\* a variant of list_public_keys_with_paths: a missing directory is handed to
\* the loader like a file
list_missing_as_error(exists, fs) ==
    IF ~exists
    THEN Outcome(<<EntryOf(<<>>, load_keypair_from_json(Plain("dangling")))>>,
                 1, <<>>)
    ELSE LET c == Candidates(fs)
         IN Outcome([i \in 1..Len(c) |->
                        EntryOf(c[i], load_keypair_from_json(fs[c[i]]))],
                    Len(c), <<>>)

\* wallet_utils.list_public_keys_with_paths; reads counts the files opened
list_public_keys_with_paths(exists, fs) ==
    IF ~exists THEN Outcome(<<>>, 0, <<>>)
    ELSE LET c == Candidates(fs)
         IN Outcome([i \in 1..Len(c) |->
                        EntryOf(c[i], load_keypair_from_json(fs[c[i]]))],
                    Len(c), <<>>)

\* wallet_utilsmac.list_public_keys_with_paths
mac_list_public_keys_with_paths(exists, fs) ==
    IF ~exists THEN Outcome(<<>>, 0, <<>>)
    ELSE LET c == Candidates(fs)
         IN Outcome([i \in 1..Len(c) |->
                        EntryOf(c[i], mac_load_keypair_from_json(fs[c[i]]))],
                    Len(c), <<>>)

IsOk(r) == r.ok

IsFailed(r) == ~r.ok

\* the longest prefix of rs without a failure
RECURSIVE UntilFailure(_)
UntilFailure(rs) ==
    IF rs = <<>> \/ ~Head(rs).ok THEN <<>>
    ELSE <<Head(rs)>> \o UntilFailure(Tail(rs))

\* a variant of load_all_wallets: the first failure ends the loop
load_all_wallets_abort(exists, fs) ==
    IF ~exists THEN Outcome(<<>>, 0, <<>>)
    ELSE LET c == Candidates(fs)
             rs == [i \in 1..Len(c) |->
                      LET r == load_keypair_from_json(fs[c[i]])
                      IN [ok |-> r.ok, kp |-> r.kp, exc |-> r.exc,
                          path |-> PathStr(c[i])]]
             good == UntilFailure(rs)
             bad == SelectSeq(rs, IsFailed)
         IN Outcome([i \in 1..Len(good) |-> good[i].kp], Len(c),
                    [i \in 1..Len(bad) |->
                       [path |-> bad[i].path, exc |-> bad[i].exc]])

\* wallet_utils.load_all_wallets: the keypairs loaded, in scan order; printed
\* holds the "Failed to load" lines
load_all_wallets(exists, fs) ==
    IF ~exists THEN Outcome(<<>>, 0, <<>>)
    ELSE LET c == Candidates(fs)
             rs == [i \in 1..Len(c) |->
                      LET r == load_keypair_from_json(fs[c[i]])
                      IN [ok |-> r.ok, kp |-> r.kp, exc |-> r.exc,
                          path |-> PathStr(c[i])]]
             good == SelectSeq(rs, IsOk)
             bad == SelectSeq(rs, IsFailed)
         IN Outcome([i \in 1..Len(good) |-> good[i].kp], Len(c),
                    [i \in 1..Len(bad) |->
                       [path |-> bad[i].path, exc |-> bad[i].exc]])

\* Path(wallets_dir).mkdir(parents=True, exist_ok=True)
Mkdir(exists) == TRUE

\* the lines main prints
NoWalletsLine == [kind |-> "No wallets found", path |-> <<>>, entry |-> <<>>]

HeaderLine == [kind |-> "Discovered wallets:", path |-> <<>>, entry |-> <<>>]

EntryLine(e) == [kind |-> "- ", path |-> e.path, entry |-> <<e>>]

\* a variant of main: the return after the "No wallets found" line is missing
main_without_return(exists, fs) ==
    LET es == list_public_keys_with_paths(exists, fs).out
    IN (IF es = <<>> THEN <<NoWalletsLine>> ELSE <<>>)
       \o <<HeaderLine>> \o [i \in 1..Len(es) |-> EntryLine(es[i])]

\* main, from the scan on: the lines printed
main(exists, fs) ==
    LET es == list_public_keys_with_paths(exists, fs).out
    IN IF es = <<>> THEN <<NoWalletsLine>>
       ELSE <<HeaderLine>> \o [i \in 1..Len(es) |-> EntryLine(es[i])]

-----------------------------------------------------------------------------
(* The inputs *)

Fills == {1, 7}

\* what one candidate path may hold, for the loaders
DecodeInputs ==
    {Plain(k) : k \in {"dangling", "dir", "badutf8", "badjson", "scalar",
                       "object"}}
    \cup {KeyArray(n, f) : n \in 0..MaxLen, f \in Fills}
    \cup {Content("array", KeypairLen, f, FALSE, 0, JNull) : f \in Fills}
    \cup UNION {{Content("array", n, f, TRUE, 1, it),
                 Content("array", n, f, TRUE, n, it)} :
                   <<n, f, it>> \in (1..MaxLen) \X Fills \X OddItems}

\* a key as solana-keygen writes it, with true where it has a 1
BoolKey == Content("array", KeypairLen, 1, TRUE, 1, JBool(TRUE))

\* what the files of a directory hold
DirKinds ==
    {KeyArray(KeypairLen, 1), KeyArray(KeypairLen, 7), KeyArray(SeedLen, 1),
     Plain("scalar"), Plain("dangling"), BoolKey}

\* the directories: up to MaxFiles entries; b.txt, when there, is a key file
Directories ==
    UNION {{fs \in [S -> DirKinds] :
               FileBTxt \in S => fs[FileBTxt] = KeyArray(KeypairLen, 1)} :
           S \in {T \in SUBSET AllPaths : Cardinality(T) <= MaxFiles}}

NoFiles == [p \in {} |-> Plain("scalar")]

-----------------------------------------------------------------------------
(* Specification of the directory functions and main *)

Init ==
    /\ input = Plain("scalar")
    /\ decoded = <<>>
    /\ macDecoded = <<>>
    /\ \/ dirExists = FALSE /\ files = NoFiles
       \/ dirExists = TRUE /\ files \in Directories
    /\ entries = NotCalled
    /\ macEntries = NotCalled
    /\ wallets = NotCalled
    /\ report = <<>>

ListKeys ==
    /\ entries' = list_public_keys_with_paths(dirExists, files)
    /\ UNCHANGED <<input, decoded, macDecoded, dirExists, files, macEntries,
                   wallets, report>>

MacListKeys ==
    /\ macEntries' = mac_list_public_keys_with_paths(dirExists, files)
    /\ UNCHANGED <<input, decoded, macDecoded, dirExists, files, entries,
                   wallets, report>>

LoadAll ==
    /\ wallets' = load_all_wallets(dirExists, files)
    /\ UNCHANGED <<input, decoded, macDecoded, dirExists, files, entries,
                   macEntries, report>>

\* report remembers whether the directory was there when main started
Main ==
    /\ dirExists' = Mkdir(dirExists)
    /\ report' = <<[missing |-> ~dirExists, lines |-> main(dirExists', files)]>>
    /\ UNCHANGED <<input, decoded, macDecoded, files, entries, macEntries,
                   wallets>>

Next == ListKeys \/ MacListKeys \/ LoadAll \/ Main

Spec == Init /\ [][Next]_vars

-----------------------------------------------------------------------------
(* Specification of the two loaders on one file *)

InitDecode ==
    /\ input \in DecodeInputs
    /\ decoded = <<>>
    /\ macDecoded = <<>>
    /\ dirExists = FALSE
    /\ files = NoFiles
    /\ entries = NotCalled
    /\ macEntries = NotCalled
    /\ wallets = NotCalled
    /\ report = <<>>

Decode ==
    /\ decoded' = <<load_keypair_from_json(input)>>
    /\ UNCHANGED <<input, macDecoded, dirExists, files, entries, macEntries,
                   wallets, report>>

MacDecode ==
    /\ macDecoded' = <<mac_load_keypair_from_json(input)>>
    /\ UNCHANGED <<input, decoded, dirExists, files, entries, macEntries,
                   wallets, report>>

NextDecode == Decode \/ MacDecode

SpecDecode == InitDecode /\ [][NextDecode]_vars

-----------------------------------------------------------------------------
(* Vocabulary of the properties, stated without the loaders *)

\* a JSON array whose items are all integers in [0,255]
IntBytesArray(c) ==
    /\ c.kind = "array"
    /\ \A i \in 1..c.len : Items(c)[i].t = "int" /\ Items(c)[i].v \in 0..255

\* a well-formed key file: 64 integers as solana-keygen writes them, or the
\* 32 integers of a seed
WellFormed(c) ==
    /\ IntBytesArray(c)
    /\ c.len \in {32, 64}
    /\ c.pair

HasBoolean(c) ==
    c.kind = "array" /\ \E i \in 1..c.len : Items(c)[i].t = "bool"

\* the public key of a well-formed key file
ExpectedPubkey(c) == [j \in 1..32 |-> PubByte(c.fill, j)]

\* the candidate key files of the directory
JsonFiles == {p \in DOMAIN files : EndsWith(PathStr(p), JsonSuffix)}

Shown(e) == e.marker = "" /\ e.exc = NoExc /\ e.pubkey # <<>>

Failed(e) == e.marker = "<error: " /\ e.exc # NoExc /\ e.pubkey = <<>>

\* the entry of list_public_keys_with_paths for path p, if any
EntriesFor(p) ==
    {i \in 1..Len(entries.out) : entries.out[i].path = PathStr(p)}

\* a path string cut at its slashes
RECURSIVE SplitPath(_, _)
SplitPath(str, acc) ==
    IF str = <<>> THEN <<acc>>
    ELSE IF Head(str) = Slash THEN <<acc>> \o SplitPath(Tail(str), <<>>)
    ELSE SplitPath(Tail(str), Append(acc, Head(str)))

-----------------------------------------------------------------------------
(* The properties *)

\* C1: a directory with N candidate files of which K are well-formed gives N
\* entries, K of them with a public key and N-K with an error marker, the
\* well-formed files being the ones shown.
C1_CountsOriginal ==
    entries.called =>
        LET K == Cardinality({p \in JsonFiles : WellFormed(files[p])})
            N == Cardinality(JsonFiles)
            out == entries.out
        IN /\ Len(out) = N
           /\ Cardinality({i \in 1..Len(out) : Shown(out[i])}) = K
           /\ Cardinality({i \in 1..Len(out) : Failed(out[i])}) = N - K

\* a seed-only file, or a file with a boolean item
SeedOrBoolean(c) == (WellFormed(c) /\ c.len = 32) \/ HasBoolean(c)

\* apart from seed-only files and booleans the counts are as stated
CountsWithoutSeedsAndBooleans ==
    (entries.called /\ \A p \in JsonFiles : ~SeedOrBoolean(files[p])) =>
        LET K == Cardinality({p \in JsonFiles : WellFormed(files[p])})
            N == Cardinality(JsonFiles)
            out == entries.out
        IN /\ Len(out) = N
           /\ Cardinality({i \in 1..Len(out) : Shown(out[i])}) = K
           /\ Cardinality({i \in 1..Len(out) : Failed(out[i])}) = N - K

\* C2: on a wallets directory that does not exist, load_all_wallets and
\* list_public_keys_with_paths return an empty list and read no file.
C2_MissingDirIsEmpty ==
    ~dirExists =>
        /\ entries.called => entries.out = <<>> /\ entries.reads = 0
        /\ wallets.called =>
               wallets.out = <<>> /\ wallets.reads = 0 /\ wallets.printed = <<>>

C2_Witness == ~dirExists /\ entries.called /\ wallets.called

\* C3: an array of integers in [0,255] whose length is not 32 or 64 fails
\* with the length error naming the actual length, before Keypair.from_bytes
\* is called; and no array of another length becomes a keypair.
C3_LengthError ==
    decoded # <<>> =>
        /\ (IntBytesArray(input) /\ input.len \notin {32, 64}) =>
               /\ ~decoded[1].ok
               /\ decoded[1].exc =
                      Exc("ValueError", "Unexpected secret key length", input.len)
               /\ ~decoded[1].built
        /\ (input.kind = "array" /\ decoded[1].ok) => input.len \in {32, 64}

C3_Witness ==
    /\ decoded # <<>>
    /\ input = KeyArray(0, 1)
    /\ decoded[1].exc = Exc("ValueError", "Unexpected secret key length", 0)

\* the format errors: not an array, an item out of range, an item of a
\* wrong type
FormatError(e) ==
    \/ e = Exc("ValueError", "Invalid key file format (expected array)", 0)
    \/ e = Exc("ValueError", "bytes must be in range(0, 256)", 0)
    \/ e = Exc("TypeError", "cannot be interpreted as an integer", 0)

\* a JSON value that is no array of integers in [0,255]
NotIntBytes(c) ==
    /\ c.kind \in {"scalar", "object", "array"}
    /\ ~IntBytesArray(c)

\* C4: a content that is a non-array JSON value, or an array with an item
\* out of range or of a wrong type (a boolean among them), is rejected by
\* both loaders and no keypair is produced, whatever its length.  (The claim
\* adds that the error is a format error; C4_FormatError states that too.)
C4_RejectedOriginal ==
    NotIntBytes(input) =>
        /\ decoded # <<>> => ~decoded[1].ok /\ decoded[1].kp = NoKeypair
        /\ macDecoded # <<>> =>
               ~macDecoded[1].ok /\ macDecoded[1].kp = NoKeypair

\* the same with the kind of error: holds of every content without a
\* boolean item, and fails with one
C4_FormatError ==
    (NotIntBytes(input) /\ decoded # <<>>) =>
        ~decoded[1].ok /\ FormatError(decoded[1].exc)

\* apart from booleans the claim holds: every other content that is no
\* array of integers in [0,255] fails with a format error in both loaders
FormatErrorWithoutBooleans ==
    (NotIntBytes(input) /\ ~HasBoolean(input)) =>
        /\ decoded # <<>> => ~decoded[1].ok /\ FormatError(decoded[1].exc)
        /\ macDecoded # <<>> =>
               ~macDecoded[1].ok /\ FormatError(macDecoded[1].exc)

\* the directory of the scenario: a.json 64 valid bytes, b.json not an
\* array, c.json 32 valid bytes
Scenario(f) ==
    (FileA :> KeyArray(64, f)) @@ (FileB :> Plain("scalar"))
        @@ (FileC :> KeyArray(32, f))

\* C5: in the scenario list_public_keys_with_paths returns 3 entries, a and
\* c showing their public keys and only b an error marker.
C5_SeedLoadsOriginal ==
    \A f \in Fills :
        (entries.called /\ dirExists /\ files = Scenario(f)) =>
            /\ Len(entries.out) = 3
            /\ \A p \in {FileA, FileC} :
                   \E i \in EntriesFor(p) :
                       /\ Shown(entries.out[i])
                       /\ entries.out[i].pubkey = ExpectedPubkey(files[p])
            /\ \E i \in EntriesFor(FileB) : Failed(entries.out[i])

\* every candidate path is listed exactly once, and nothing else is
ListsEachOnce ==
    /\ Len(entries.out) = Cardinality(JsonFiles)
    /\ \A p \in JsonFiles : Cardinality(EntriesFor(p)) = 1

\* C6 as stated: the paths returned are each *.json path exactly once, in
\* ascending order of the path strings.
C6_StringOrderOriginal ==
    entries.called =>
        /\ ListsEachOnce
        /\ \A i, j \in 1..Len(entries.out) :
               i < j => StrLess(entries.out[i].path, entries.out[j].path)

\* C6 amended: the paths returned are each *.json path exactly once, in
\* ascending order of their component sequences: component by component,
\* each component as a string, a proper prefix first.
C6_ComponentOrder ==
    entries.called =>
        /\ ListsEachOnce
        /\ \A i, j \in 1..Len(entries.out) :
               i < j => PartsLess(SplitPath(entries.out[i].path, <<>>),
                                  SplitPath(entries.out[j].path, <<>>))

\* a/x.json is listed before a.json, against the order of the strings
C6_Witness ==
    /\ entries.called
    /\ \E i, j \in 1..Len(entries.out) :
           /\ i < j
           /\ entries.out[i].path = PathStr(FileAX)
           /\ entries.out[j].path = PathStr(FileA)
           /\ StrLess(entries.out[j].path, entries.out[i].path)

\* the keypairs of load_all_wallets with the public key of content c
KeypairsOf(c) ==
    {i \in 1..Len(wallets.out) : wallets.out[i].pub = ExpectedPubkey(c)}

\* C7: well-formed key files that encode the same key material each keep
\* their own entry, with the same public key and distinct paths, and
\* load_all_wallets returns one keypair for each of them.
C7_DuplicatesOriginal ==
    \A p \in JsonFiles :
        LET same == {q \in JsonFiles : files[q] = files[p]}
        IN (WellFormed(files[p]) /\ Cardinality(same) >= 2) =>
               /\ entries.called =>
                      /\ Len(entries.out) = Cardinality(JsonFiles)
                      /\ \A q \in same :
                             \E i \in EntriesFor(q) :
                                 /\ Shown(entries.out[i])
                                 /\ entries.out[i].pubkey =
                                        ExpectedPubkey(files[p])
               /\ wallets.called =>
                      Cardinality(KeypairsOf(files[p])) >= Cardinality(same)

\* for files of 64 integers the duplicates are kept as stated
DuplicatesOf64Kept ==
    \A p \in JsonFiles :
        LET same == {q \in JsonFiles : files[q] = files[p]}
        IN (WellFormed(files[p]) /\ files[p].len = 64
            /\ Cardinality(same) >= 2) =>
               /\ entries.called =>
                      /\ Len(entries.out) = Cardinality(JsonFiles)
                      /\ \A q \in same :
                             \E i \in EntriesFor(q) :
                                 /\ Shown(entries.out[i])
                                 /\ entries.out[i].pubkey =
                                        ExpectedPubkey(files[p])
               /\ wallets.called =>
                      Cardinality(KeypairsOf(files[p])) >= Cardinality(same)

IsShown(e) == e.marker = ""

IsMarked(e) == e.marker # ""

\* C9: the keypairs of load_all_wallets are, in order, the entries that
\* list_public_keys_with_paths reports without an error marker, and the
\* files it skips are, in order, the entries reported with one.
C9_LoadAllAgreesWithList ==
    (entries.called /\ wallets.called) =>
        LET shown == SelectSeq(entries.out, IsShown)
            marked == SelectSeq(entries.out, IsMarked)
        IN /\ Len(wallets.out) = Len(shown)
           /\ \A i \in 1..Len(shown) :
                  PubkeyStr(wallets.out[i]) = shown[i].pubkey
           /\ Len(wallets.printed) = Len(marked)
           /\ \A i \in 1..Len(marked) :
                  /\ wallets.printed[i].path = marked[i].path
                  /\ wallets.printed[i].exc = marked[i].exc

\* a failed file between two loaded files with different keys
C9_Witness ==
    /\ entries.called
    /\ wallets.called
    /\ Len(entries.out) = 3
    /\ Shown(entries.out[1])
    /\ Failed(entries.out[2])
    /\ Shown(entries.out[3])
    /\ entries.out[1].pubkey # entries.out[3].pubkey
    /\ Len(wallets.out) = 2

\* the two loaders give c the same verdict and the same keypair
LoadersAgreeOn(c) ==
    /\ load_keypair_from_json(c).ok = mac_load_keypair_from_json(c).ok
    /\ load_keypair_from_json(c).kp = mac_load_keypair_from_json(c).kp

\* C10: the two modules list the same paths with the same loaded-or-failed
\* status and the same public keys, a path that does not resolve included,
\* and their loaders accept and reject the same contents.  The second part
\* is a fact about the loaders alone; it is evaluated over every content of
\* DecodeInputs in the states whose directory does not exist.
C10_MacAgrees ==
    /\ (entries.called /\ macEntries.called) =>
           /\ Len(entries.out) = Len(macEntries.out)
           /\ \A i \in 1..Len(entries.out) :
                  /\ entries.out[i].path = macEntries.out[i].path
                  /\ entries.out[i].marker = macEntries.out[i].marker
                  /\ entries.out[i].pubkey = macEntries.out[i].pubkey
    /\ \A p \in DOMAIN files : LoadersAgreeOn(files[p])
    /\ ~dirExists => \A c \in DecodeInputs : LoadersAgreeOn(c)

\* both modules list a broken link as failed and a key file as loaded
C10_Witness ==
    /\ entries.called
    /\ macEntries.called
    /\ \E i, j \in 1..Len(macEntries.out) :
           /\ Failed(macEntries.out[i])
           /\ macEntries.out[i].exc.type = "FileNotFoundError"
           /\ entries.out[i].exc.type = "FileNotFoundError"
           /\ Shown(macEntries.out[j])
           /\ Shown(entries.out[j])

=============================================================================
